---- MODULE Spec2Model ----
(***************************************************************************)
(* Model of laser_egismos.py: the frame codec of _LaserBase (_build_frame, *)
(* _parse_frame, _process_frame, _check_measurement_for_errors) and the    *)
(* command/response exchange of Laser (blocking) and AsyncLaser.           *)
(*                                                                         *)
(* Bytes are integers 0..255, byte strings are sequences of bytes.         *)
(* A Python exception is a record [ok |-> FALSE, kind, msg]: kind is the   *)
(* exception class, msg the constant part of its message.                  *)
(***************************************************************************)
EXTENDS Integers, Sequences, FiniteSets, TLC

\* Codec harness: one call of _build_frame, an optional corruption of the
\* built frame, one call of _parse_frame.
\* It also makes one call of _check_measurement_for_errors on a payload.
VARIABLES cpc, call, cframe, tamper, parsed, payload, measured

\* Session: one Laser or AsyncLaser object, its UART and the device.
VARIABLES
    variant,     \* "Laser" or "AsyncLaser"
    self_address,  \* self.address
    self_timeout,  \* self.timeout
    pc,          \* position of the caller inside the current operation
    op,          \* the public operation in progress: [name, arg]
    sent,        \* arguments of the _send_and_receive in progress
    sr_frame,    \* local `frame` of _send_and_receive: request, then response
    buffer,      \* local `buffer` of _read_frame
    late,        \* time.monotonic() > timeout_due / the wait_for timer fired
    inbound,     \* bytes the device has sent and the driver has not consumed
    unanswered,  \* the last request, until the device has answered it
    written,     \* frames passed to uart.write during the current operation
    scan,        \* how the last _read_frame ended
    outcome,     \* return value or exception of the last operation
    ops_done,    \* operations completed so far
    reply,       \* what the device has sent in answer to the last request
    leftover,    \* how many bytes at the head of inbound were sent in answer
                 \* to a request earlier than the last one
    origin       \* where the first byte of `buffer` came from: "fresh" (the
                 \* answer to the last request), "leftover" (an earlier
                 \* answer, received after the last request was written) or
                 \* "buffered" (an earlier answer, already in the UART's
                 \* input buffer when the last request was written)

\* The other task of the asyncio example
VARIABLES count  \* iterations of counter() completed

\* A Laser and an AsyncLaser given the same operation on the same line
VARIABLES pair   \* per variant: position, bytes still to be read, buffer,
                 \* frames written, outcome, resulting self.address

\* ------------------------------------------------------------------ bounds
MaxDataLen == 2
MaxPayloadLen == 3
MaxOps == 2
RxBufferSize == 8
MaxRawLen == 5
MaxCount == 2

\* --------------------------------------------------------- class constants
FRAME_END == 168
FRAME_START == 170
BUZZER_CONTROL == 71
STOP_CONTINUOUS_MEASURE == 70
SINGLE_MEASURE == 68
LASER_OFF == 67
LASER_ON == 66
SET_SLAVE_ADDRESS == 65
READ_SW_VERSION == 1
DEFAULT_TIMEOUT == 5

\* ------------------------------------------------------- Python primitives
\* Optional / dynamically typed arguments: None, an int, or a list of ints.
PyNone == [type |-> "NoneType"]
PyInt(n) == [type |-> "int", val |-> n]
PyList(s) == [type |-> "list", val |-> s]

RECURSIVE Sum(_)
Sum(s) == IF s = <<>> THEN 0 ELSE Head(s) + Sum(Tail(s))

\* x & mask for a mask of the form 2^k - 1
BitAnd7F(x) == x % 128

\* s[lo:hi] with Python's clamping; a negative bound counts from the end
PyBound(s, i) ==
    IF i < 0 THEN (IF Len(s) + i < 0 THEN 0 ELSE Len(s) + i)
    ELSE (IF i > Len(s) THEN Len(s) ELSE i)

PySlice(s, lo, hi) ==
    LET a == PyBound(s, lo)
        b == PyBound(s, hi)
    IN  IF a < b THEN SubSeq(s, a + 1, b) ELSE <<>>

\* s[i]; InRange(s, i) is FALSE where Python raises IndexError
InRange(s, i) == IF i < 0 THEN Len(s) + i >= 0 ELSE i < Len(s)
PyIndex(s, i) == IF i < 0 THEN s[Len(s) + i + 1] ELSE s[i + 1]

\* Sequences over S of length at most n
SeqUpTo(S, n) == UNION {[1..k -> S] : k \in 0..n}

\* ------------------------------------------------------------- exceptions
Raise(kind, msg) == [ok |-> FALSE, kind |-> kind, msg |-> msg]

\* ------------------------------------------------------------ frame codec
\* Variant of _build_frame that masks the checksum to 8 bits instead of 7
_build_frame_mask8(self, command, address, data) ==
    LET address1 == IF address.type = "NoneType" THEN self.address ELSE address.val
        data1 == IF data.type = "NoneType" THEN <<>> ELSE data.val
        data2 == IF data.type = "int" THEN <<data1>> ELSE data1
        checksum == (command + address1 + Sum(data2)) % 256
    IN  <<FRAME_START, address1, command>> \o data2 \o <<checksum, FRAME_END>>

\* _LaserBase._build_frame; self is the record of the object's fields
_build_frame(self, command, address, data) ==
    LET address1 == IF address.type = "NoneType" THEN self.address ELSE address.val
        data1 == IF data.type = "NoneType" THEN <<>> ELSE data.val
        data2 == IF data.type = "int" THEN <<data1>> ELSE data1
        checksum == BitAnd7F(command + address1 + Sum(data2))
    IN  <<FRAME_START, address1, command>> \o data2 \o <<checksum, FRAME_END>>

\* Variant of _parse_frame whose data slice runs to the last byte but one
_parse_frame_slice(frame) ==
    IF ~InRange(frame, 0)
    THEN Raise("IndexError", "index out of range")
    ELSE IF PyIndex(frame, 0) # FRAME_START
    THEN Raise("LaserCommandFailedError", "Frame does not start with")
    ELSE IF PyIndex(frame, -1) # FRAME_END
    THEN Raise("LaserCommandFailedError", "Frame does not end with")
    ELSE IF ~InRange(frame, -2)
    THEN Raise("IndexError", "index out of range")
    ELSE IF PyIndex(frame, -2) # BitAnd7F(Sum(PySlice(frame, 1, -2)))
    THEN Raise("LaserCommandFailedError", "Checksum should be")
    ELSE IF ~InRange(frame, 2)
    THEN Raise("IndexError", "index out of range")
    ELSE [ok |-> TRUE,
          command |-> PyIndex(frame, 2),
          address |-> PyIndex(frame, 1),
          data |-> PySlice(frame, 3, -1)]

\* Variant of _parse_frame that masks the received checksum byte to 7 bits
\* before comparing it
_parse_frame_mask_rx(frame) ==
    IF ~InRange(frame, 0)
    THEN Raise("IndexError", "index out of range")
    ELSE IF PyIndex(frame, 0) # FRAME_START
    THEN Raise("LaserCommandFailedError", "Frame does not start with")
    ELSE IF PyIndex(frame, -1) # FRAME_END
    THEN Raise("LaserCommandFailedError", "Frame does not end with")
    ELSE IF ~InRange(frame, -2)
    THEN Raise("IndexError", "index out of range")
    ELSE IF BitAnd7F(PyIndex(frame, -2)) # BitAnd7F(Sum(PySlice(frame, 1, -2)))
    THEN Raise("LaserCommandFailedError", "Checksum should be")
    ELSE IF ~InRange(frame, 2)
    THEN Raise("IndexError", "index out of range")
    ELSE [ok |-> TRUE,
          command |-> PyIndex(frame, 2),
          address |-> PyIndex(frame, 1),
          data |-> PySlice(frame, 3, -2)]

\* Variant of _parse_frame that does not look at the last byte
_parse_frame_no_end(frame) ==
    IF ~InRange(frame, 0)
    THEN Raise("IndexError", "index out of range")
    ELSE IF PyIndex(frame, 0) # FRAME_START
    THEN Raise("LaserCommandFailedError", "Frame does not start with")
    ELSE IF ~InRange(frame, -2)
    THEN Raise("IndexError", "index out of range")
    ELSE IF PyIndex(frame, -2) # BitAnd7F(Sum(PySlice(frame, 1, -2)))
    THEN Raise("LaserCommandFailedError", "Checksum should be")
    ELSE IF ~InRange(frame, 2)
    THEN Raise("IndexError", "index out of range")
    ELSE [ok |-> TRUE,
          command |-> PyIndex(frame, 2),
          address |-> PyIndex(frame, 1),
          data |-> PySlice(frame, 3, -2)]

\* _LaserBase._parse_frame
_parse_frame(frame) ==
    IF ~InRange(frame, 0)
    THEN Raise("IndexError", "index out of range")
    ELSE IF PyIndex(frame, 0) # FRAME_START
    THEN Raise("LaserCommandFailedError", "Frame does not start with")
    ELSE IF PyIndex(frame, -1) # FRAME_END
    THEN Raise("LaserCommandFailedError", "Frame does not end with")
    ELSE IF ~InRange(frame, -2)
    THEN Raise("IndexError", "index out of range")
    ELSE IF PyIndex(frame, -2) # BitAnd7F(Sum(PySlice(frame, 1, -2)))
    THEN Raise("LaserCommandFailedError", "Checksum should be")
    ELSE IF ~InRange(frame, 2)
    THEN Raise("IndexError", "index out of range")
    ELSE [ok |-> TRUE,
          command |-> PyIndex(frame, 2),
          address |-> PyIndex(frame, 1),
          data |-> PySlice(frame, 3, -2)]

\* ------------------------------------------------ measurement interpreter
\* ASCII codes
Ch(c) ==
    CASE c = "0" -> 48 [] c = "1" -> 49 [] c = "2" -> 50 [] c = "3" -> 51
      [] c = "4" -> 52 [] c = "5" -> 53 [] c = "6" -> 54 [] c = "7" -> 55
      [] c = "8" -> 56 [] c = "9" -> 57 [] c = "E" -> 69 [] c = "R" -> 82
      [] c = "-" -> 45 [] c = "+" -> 43 [] c = " " -> 32 [] c = "_" -> 95
      [] c = "a" -> 97 [] c = "\n" -> 10

ERR256 == <<Ch("E"), Ch("R"), Ch("R"), Ch("2"), Ch("5"), Ch("6")>>
ERR255 == <<Ch("E"), Ch("R"), Ch("R"), Ch("2"), Ch("5"), Ch("5")>>
ERR204 == <<Ch("E"), Ch("R"), Ch("R"), Ch("2"), Ch("0"), Ch("4")>>

\* int(b): the bytes are stripped of surrounding ASCII whitespace, then an
\* optional sign, then decimal digits, where single underscores may
\* separate digits; anything else is a ValueError.
Whitespace == {9, 10, 11, 12, 13, 32}
IsDigit(b) == b \in 48..57

RECURSIVE LStrip(_)
LStrip(s) ==
    IF s # <<>> /\ Head(s) \in Whitespace THEN LStrip(Tail(s)) ELSE s

RECURSIVE RStrip(_)
RStrip(s) ==
    IF s # <<>> /\ s[Len(s)] \in Whitespace
    THEN RStrip(SubSeq(s, 1, Len(s) - 1)) ELSE s

RECURSIVE DigitsValue(_, _)
DigitsValue(s, acc) ==
    IF s = <<>> THEN acc
    ELSE IF Head(s) = 95 THEN DigitsValue(Tail(s), acc)
    ELSE DigitsValue(Tail(s), acc * 10 + (Head(s) - 48))

ValidDigits(s) ==
    /\ s # <<>>
    /\ IsDigit(s[1]) /\ IsDigit(s[Len(s)])
    /\ \A i \in 1..Len(s) : IsDigit(s[i]) \/ s[i] = 95
    /\ \A i \in 1..(Len(s) - 1) : ~(s[i] = 95 /\ s[i + 1] = 95)

PyIntOfBytes(s) ==
    LET t == RStrip(LStrip(s))
        signed == t # <<>> /\ Head(t) \in {43, 45}
        body == IF signed THEN Tail(t) ELSE t
        mag == DigitsValue(body, 0)
    IN  IF ValidDigits(body)
        THEN [ok |-> TRUE,
              value |-> IF signed /\ Head(t) = 45 THEN 0 - mag ELSE mag]
        ELSE Raise("ValueError", "invalid literal for int()")

\* Variant of the interpreter that tests ERR255 before ERR256 and maps
\* both to TooBrightError
_check_measurement_for_errors_merged(result) ==
    IF result = ERR256 \/ result = ERR255
    THEN Raise("TooBrightError", "Too much ambient light, or laser too close")
    ELSE IF result = ERR204
    THEN Raise("BadReadingError", "Unable to measure - is the target moving?")
    ELSE IF ~PyIntOfBytes(result).ok
    THEN Raise("LaserCommandFailedError", "Unexpected response from read")
    ELSE PyIntOfBytes(result)

\* _LaserBase._check_measurement_for_errors
_check_measurement_for_errors(result) ==
    IF result = ERR256
    THEN Raise("TooBrightError", "Too much ambient light, or laser too close")
    ELSE IF result = ERR255
    THEN Raise("TooDimError", "Laser spot too dim")
    ELSE IF result = ERR204
    THEN Raise("BadReadingError", "Unable to measure - is the target moving?")
    ELSE IF ~PyIntOfBytes(result).ok
    THEN Raise("LaserCommandFailedError", "Unexpected response from read")
    ELSE PyIntOfBytes(result)

\* Variant of _process_frame that does not compare the command
_process_frame_no_command(self, address, command, frame) ==
    LET address1 == IF address.type = "NoneType" THEN self.address
                    ELSE address.val
        read == _parse_frame(frame)
    IN  IF ~read.ok THEN read
        ELSE IF address1 # read.address
        THEN Raise("LaserCommandFailedError",
                   "Received address does not match sent address")
        ELSE [ok |-> TRUE, value |-> read.data]

\* Variant of _process_frame that does not compare the address
_process_frame_no_address(self, address, command, frame) ==
    LET read == _parse_frame(frame)
    IN  IF ~read.ok THEN read
        ELSE IF command # read.command
        THEN Raise("LaserCommandFailedError",
                   "Received command does not match sent command")
        ELSE [ok |-> TRUE, value |-> read.data]

\* _LaserBase._process_frame
_process_frame(self, address, command, frame) ==
    LET address1 == IF address.type = "NoneType" THEN self.address
                    ELSE address.val
        read == _parse_frame(frame)
    IN  IF ~read.ok THEN read
        ELSE IF command # read.command
        THEN Raise("LaserCommandFailedError",
                   "Received command does not match sent command")
        ELSE IF address1 # read.address
        THEN Raise("LaserCommandFailedError",
                   "Received address does not match sent address")
        ELSE [ok |-> TRUE, value |-> read.data]

\* ---------------------------------------------------------- codec harness
\* Byte values the harness draws from: small and large sums, both markers.
CommandBytes == {1, SET_SLAVE_ADDRESS, SINGLE_MEASURE, FRAME_END, 255}
AddressBytes == {0, 1, 127, FRAME_END, 255}
DataBytes == {0, 1, 128, FRAME_END, FRAME_START, 255}

AddressArgs == {PyNone} \cup {PyInt(a) : a \in AddressBytes}
DataArgs == {PyNone} \cup {PyInt(d) : d \in DataBytes}
              \cup {PyList(s) : s \in SeqUpTo(DataBytes, MaxDataLen)}

\* ------------------------------------------------------------ state tuples
svars_session == <<variant, self_address, self_timeout, pc, op, sent,
                   sr_frame, buffer, late, inbound, unanswered, written, scan,
                   outcome, ops_done, reply, leftover, origin>>

svars == <<svars_session, count, pair>>

NoOp == [name |-> "none", arg |-> PyNone]
NoSent == [command |-> 0, data |-> PyNone, address |-> PyNone]
NoOutcome == [ok |-> FALSE, kind |-> "none", msg |-> "no operation finished"]

\* The session before any operation, as __init__ leaves it
SessionFresh ==
    /\ self_address = 1
    /\ self_timeout = DEFAULT_TIMEOUT
    /\ pc = "idle"
    /\ op = NoOp
    /\ sent = NoSent
    /\ sr_frame = <<>>
    /\ buffer = <<>>
    /\ late = FALSE
    /\ inbound = <<>>
    /\ unanswered = <<>>
    /\ written = <<>>
    /\ scan = "none"
    /\ outcome = NoOutcome
    /\ ops_done = 0
    /\ reply = <<>>
    /\ leftover = 0
    /\ origin = "none"

\* The two variants before any operation
Variants == {"Laser", "AsyncLaser"}

PairFresh ==
    [v \in Variants |->
        [pc |-> "idle", line |-> <<>>, buffer |-> <<>>, written |-> <<>>,
         outcome |-> NoOutcome, address |-> 1]]

NoTamper == [what |-> "none", arg |-> 0]
NotParsed == [ok |-> FALSE, kind |-> "none", msg |-> "not parsed"]

NoCall == [session_address |-> 1, command |-> 0, address |-> PyNone,
           data |-> PyNone]

\* Payload bytes the harness draws from, and longer payloads of interest
PayloadBytes == {Ch("0"), Ch("1"), Ch("9"), Ch("-"), Ch("+"), Ch(" "),
                 Ch("_"), Ch("E"), Ch("\n")}
LongPayloads == {ERR256, ERR255, ERR204,
                 <<Ch("E"), Ch("R"), Ch("R"), Ch("2"), Ch("5")>>,
                 <<Ch("E"), Ch("R"), Ch("R"), Ch("2"), Ch("5"), Ch("6"), Ch("0")>>,
                 <<Ch(" "), Ch("E"), Ch("R"), Ch("R"), Ch("2"), Ch("5"), Ch("6")>>,
                 <<Ch("1"), Ch("2"), Ch("3"), Ch("4")>>,
                 <<Ch("0"), Ch("0"), Ch("1"), Ch("2"), Ch("0")>>,
                 <<Ch("1"), Ch("2"), Ch("a")>>,
                 <<0, 1>>, <<1>>, <<FRAME_END>>}

cvars == <<cpc, call, cframe, tamper, parsed, payload, measured>>

\* x ^ (1 << i) for a byte x
FlipBit(x, i) == IF (x \div (2 ^ i)) % 2 = 1 THEN x - 2 ^ i ELSE x + 2 ^ i

\* s with s[i] replaced (i as a Python index)
ReplaceAt(s, i, b) ==
    LET j == IF i < 0 THEN Len(s) + i + 1 ELSE i + 1
    IN  [k \in 1..Len(s) |-> IF k = j THEN b ELSE s[k]]

\* Byte sequences handed to _parse_frame as they are
RawBytes == {0, 1, FRAME_END, FRAME_START}
RawFrames == SeqUpTo(RawBytes, MaxRawLen)

InitCodec ==
    /\ variant = "Laser"
    /\ SessionFresh
    /\ count = 0
    /\ pair = PairFresh
    /\ parsed = NotParsed
    /\ measured = NotParsed
    /\ \/ /\ cpc = "args"
          /\ call \in [session_address : {1, 127},
                       command : CommandBytes,
                       address : AddressArgs,
                       data : DataArgs]
          /\ cframe = <<>>
          /\ tamper = NoTamper
          /\ payload = <<>>
       \/ /\ cpc = "payload"
          /\ call = NoCall
          /\ cframe = <<>>
          /\ tamper = NoTamper
          /\ payload \in SeqUpTo(PayloadBytes, MaxPayloadLen) \cup LongPayloads
       \/ /\ cpc = "built"
          /\ call = NoCall
          /\ cframe \in RawFrames
          /\ tamper = [what |-> "raw", arg |-> 0]
          /\ payload = <<>>

BuildFrame ==
    /\ cpc = "args"
    /\ cframe' = _build_frame([address |-> call.session_address], call.command,
                              call.address, call.data)
    /\ cpc' = "built"
    /\ UNCHANGED <<call, tamper, parsed, payload, measured>>
    /\ UNCHANGED svars

FlipChecksumBit ==
    /\ cpc = "built" /\ tamper = NoTamper
    /\ \E i \in 0..7 :
          /\ cframe' = ReplaceAt(cframe, -2, FlipBit(PyIndex(cframe, -2), i))
          /\ tamper' = [what |-> "checksum", arg |-> i]
    /\ UNCHANGED <<cpc, call, parsed, payload, measured>>
    /\ UNCHANGED svars

ReplaceStart ==
    /\ cpc = "built" /\ tamper = NoTamper
    /\ \E b \in (DataBytes \cup {2, 171}) \ {FRAME_START} :
          /\ cframe' = ReplaceAt(cframe, 0, b)
          /\ tamper' = [what |-> "start", arg |-> b]
    /\ UNCHANGED <<cpc, call, parsed, payload, measured>>
    /\ UNCHANGED svars

ReplaceEnd ==
    /\ cpc = "built" /\ tamper = NoTamper
    /\ \E b \in (DataBytes \cup {40, 169}) \ {FRAME_END} :
          /\ cframe' = ReplaceAt(cframe, -1, b)
          /\ tamper' = [what |-> "end", arg |-> b]
    /\ UNCHANGED <<cpc, call, parsed, payload, measured>>
    /\ UNCHANGED svars

ParseFrame ==
    /\ cpc = "built"
    /\ parsed' = _parse_frame(cframe)
    /\ cpc' = "parsed"
    /\ UNCHANGED <<call, cframe, tamper, payload, measured>>
    /\ UNCHANGED svars

CheckMeasurement ==
    /\ cpc = "payload"
    /\ measured' = _check_measurement_for_errors(payload)
    /\ cpc' = "measured"
    /\ UNCHANGED <<call, cframe, tamper, parsed, payload>>
    /\ UNCHANGED svars

NextCodec ==
    \/ BuildFrame
    \/ FlipChecksumBit
    \/ ReplaceStart
    \/ ReplaceEnd
    \/ ParseFrame
    \/ CheckMeasurement

vars == <<cvars, svars>>

SpecCodec == InitCodec /\ [][NextCodec]_vars

\* ----------------------------------------------------------------- session
\* The public operations; a bool argument is the int it converts to.
NewAddresses == {127, FRAME_END}

Operations(v) ==
    {[name |-> "set_laser", arg |-> PyInt(b)] : b \in {0, 1}}
    \cup {[name |-> "stop_measuring", arg |-> PyNone]}
    \cup {[name |-> "set_buzzer", arg |-> PyInt(0)]}
    \cup {[name |-> "set_slave_address", arg |-> PyInt(a)] : a \in NewAddresses}
    \cup {[name |-> "measure", arg |-> PyNone]}
    \cup (IF v = "Laser" THEN {[name |-> "distance", arg |-> PyNone]} ELSE {})
    \cup {[name |-> "_send_and_receive", arg |-> PyInt(2)]}

AckOperations == {"set_laser", "stop_measuring", "set_buzzer",
                  "set_slave_address"}

\* The arguments each operation passes to _send_and_receive
SendArgs(o) ==
    CASE o.name = "set_laser" ->
           [command |-> IF o.arg.val # 0 THEN LASER_ON ELSE LASER_OFF,
            data |-> PyNone, address |-> PyNone]
      [] o.name = "stop_measuring" ->
           [command |-> STOP_CONTINUOUS_MEASURE,
            data |-> PyNone, address |-> PyNone]
      [] o.name = "set_buzzer" ->
           [command |-> BUZZER_CONTROL, data |-> o.arg, address |-> PyNone]
      [] o.name = "set_slave_address" ->
           [command |-> SET_SLAVE_ADDRESS, data |-> o.arg, address |-> PyNone]
      [] o.name \in {"measure", "distance"} ->
           [command |-> SINGLE_MEASURE, data |-> PyNone, address |-> PyNone]
      [] o.name = "_send_and_receive" ->
           [command |-> READ_SW_VERSION, data |-> PyNone, address |-> o.arg]

\* Variant of the acknowledgement test that accepts an empty payload
_send_command_and_raise_on_failure_empty(result) ==
    IF ~result.ok THEN result
    ELSE IF result.value # <<>> /\ result.value[1] # 1
    THEN Raise("LaserCommandFailedError", "Tried to send but it failed")
    ELSE [ok |-> TRUE, value |-> PyNone]

\* _send_command_and_raise_on_failure, applied to what _send_and_receive
\* returned or raised
_send_command_and_raise_on_failure(result) ==
    IF ~result.ok THEN result
    ELSE IF result.value = <<>> \/ result.value[1] # 1
    THEN Raise("LaserCommandFailedError", "Tried to send but it failed")
    ELSE [ok |-> TRUE, value |-> PyNone]

\* measure, applied to what _send_and_receive returned or raised
measure(result) ==
    IF ~result.ok THEN result
    ELSE LET m == _check_measurement_for_errors(result.value)
         IN  IF m.ok THEN [ok |-> TRUE, value |-> PyInt(m.value)] ELSE m

\* distance: measure() / 10.0, kept as the fraction num / den
distance(result) ==
    LET m == measure(result)
    IN  IF m.ok
        THEN [ok |-> TRUE,
              value |-> [type |-> "float", num |-> m.value.val, den |-> 10]]
        ELSE m

\* What the operation returns or raises once _send_and_receive has ended
OperationOutcome(o, result) ==
    CASE o.name \in AckOperations -> _send_command_and_raise_on_failure(result)
      [] o.name = "measure" -> measure(result)
      [] o.name = "distance" -> distance(result)
      [] o.name = "_send_and_receive" ->
           IF result.ok THEN [ok |-> TRUE, value |-> PyList(result.value)]
           ELSE result

\* Variant of set_slave_address that stores the address before the exchange
\* result is known
AddressAfterEager(o, out) ==
    IF o.name = "set_slave_address" THEN o.arg.val ELSE self_address

\* set_slave_address stores the address after the acknowledged exchange;
\* no other operation assigns self.address
AddressAfter(o, out) ==
    IF o.name = "set_slave_address" /\ out.ok THEN o.arg.val
    ELSE self_address

\* ------------------------------------------------------------- the device
\* What the device may put on the line in answer to a request frame.
DeviceFrame(a, c, p) ==
    <<FRAME_START, a, c>> \o p \o <<(c + a + Sum(p)) % 128, FRAME_END>>

AckPayloads == {<<1>>, <<0>>, <<>>, <<1, FRAME_END>>}
MeasurePayloads == {<<Ch("1"), Ch("2")>>, <<Ch("-"), Ch("5")>>, <<Ch("E")>>}

Payloads(c) == IF c = SINGLE_MEASURE THEN MeasurePayloads ELSE AckPayloads
Usual(c) == IF c = SINGLE_MEASURE THEN <<Ch("1"), Ch("2")>> ELSE <<1>>

Responses(req) ==
    LET a == req.address
        c == req.command
        good == DeviceFrame(a, c, Usual(c))
    IN  {DeviceFrame(a, c, p) : p \in Payloads(c)}
        \cup {DeviceFrame((a % 255) + 1, c, Usual(c)),
              DeviceFrame(a, c + 1, Usual(c)),
              ReplaceAt(good, -2, FlipBit(PyIndex(good, -2), 0)),
              <<85>> \o good,
              <<FRAME_START, a, c>>}

\* ------------------------------------------------------------ the actions
LastOf(s) == s[Len(s)]

\* Ends the operation with an exception raised inside the frame scan
Fail(kind, msg) ==
    /\ scan' = kind
    /\ outcome' = Raise(kind, msg)
    /\ pc' = "idle"
    /\ ops_done' = ops_done + 1
    /\ UNCHANGED <<self_address, sr_frame>>

\* Ends the operation after _read_frame returned buf
Return(buf) ==
    LET self == [address |-> self_address, timeout |-> self_timeout]
        out == OperationOutcome(op,
                   _process_frame(self, sent.address, sent.command, buf))
    IN  /\ scan' = "frame"
        /\ sr_frame' = buf
        /\ outcome' = out
        /\ self_address' = AddressAfter(op, out)
        /\ pc' = "idle"
        /\ ops_done' = ops_done + 1

\* uart.read(1): the next byte if it has arrived, else nothing
ReadChoices ==
    {<<>>} \cup (IF inbound # <<>> THEN {<<Head(inbound)>>} ELSE {})

\* Where the next inbound byte can come from.  reset_input_buffer (Laser)
\* has dropped every byte that was in the input buffer; AsyncLaser does not
\* call it, so a byte of an earlier answer may have been there already.
ByteOrigins ==
    IF leftover = 0 THEN {"fresh"}
    ELSE IF variant = "Laser" THEN {"leftover"}
    ELSE {"leftover", "buffered"}

Consume(c) ==
    /\ inbound' = IF c = <<>> THEN inbound ELSE Tail(inbound)
    /\ leftover' = IF c # <<>> /\ leftover > 0 THEN leftover - 1 ELSE leftover
    /\ IF pc # "wait_start" THEN origin' = origin
       ELSE IF c = <<FRAME_START>> THEN origin' \in ByteOrigins
       ELSE origin' = "none"
    /\ UNCHANGED reply

WriteTwice(request) == written' = <<request, request>>

\* self.uart.write(frame), the only write of an operation
Write(request) == written' = <<request>>

\* A public operation is called and runs up to its first read:
\* _send_and_receive builds the frame, resets the input buffer (Laser only;
\* the bytes that have arrived so far are dropped, later ones are not),
\* writes the frame, and the scan starts: timeout_due is set (Laser) or
\* wait_for starts its timer (AsyncLaser), and buffer = b"\x00".
Call ==
    /\ pc = "idle"
    /\ ops_done < MaxOps
    /\ \E o \in Operations(variant) :
          LET self == [address |-> self_address, timeout |-> self_timeout]
              request == _build_frame(self, SendArgs(o).command,
                                      SendArgs(o).address, SendArgs(o).data)
          IN  /\ op' = o
              /\ sent' = SendArgs(o)
              /\ sr_frame' = request
              /\ Write(request)
              /\ unanswered' = <<[address |-> request[2],
                                  command |-> request[3]]>>
    /\ \E k \in 0..Len(inbound) :
          IF variant = "Laser"
          THEN /\ inbound' = SubSeq(inbound, k + 1, Len(inbound))
               /\ leftover' = Len(inbound) - k
          ELSE /\ k = 0
               /\ inbound' = inbound
               /\ leftover' = Len(inbound)
    /\ reply' = <<>>
    /\ origin' = "none"
    /\ late' = FALSE
    /\ buffer' = <<0>>
    /\ pc' = "wait_start"
    /\ scan' = "none"
    /\ outcome' = NoOutcome
    /\ UNCHANGED <<variant, self_address, self_timeout, ops_done>>
    /\ UNCHANGED cvars
    /\ UNCHANGED <<count, pair>>

\* One round of Laser._read_frame's first loop
LaserReadStart ==
    /\ variant = "Laser" /\ pc = "wait_start"
    /\ \E c \in ReadChoices :
          LET buf == IF c = <<>> THEN <<0>> ELSE c
          IN  /\ Consume(c)
              /\ buffer' = buf
              /\ IF late
                 THEN Fail("LaserTimeOutError",
                           "Timed Out waiting for FRAME_START")
                 ELSE /\ pc' = IF buf[1] = FRAME_START THEN "wait_end"
                               ELSE "wait_start"
                      /\ UNCHANGED <<self_address, sr_frame, scan, outcome,
                                     ops_done>>
    /\ UNCHANGED <<variant, self_timeout, op, sent, late, unanswered, written>>
    /\ UNCHANGED cvars
    /\ UNCHANGED <<count, pair>>

\* Variant of the second loop that looks at the clock only after a read
\* that returned nothing
LaserReadEndCheckOnEmpty ==
    /\ variant = "Laser" /\ pc = "wait_end"
    /\ \E c \in ReadChoices :
          LET buf == buffer \o c
          IN  /\ Consume(c)
              /\ buffer' = buf
              /\ IF late /\ c = <<>>
                 THEN Fail("LaserTimeOutError",
                           "Timed Out waiting for FRAME_END")
                 ELSE IF LastOf(buf) = FRAME_END
                 THEN Return(buf)
                 ELSE UNCHANGED <<self_address, sr_frame, scan, outcome,
                                  ops_done, pc>>
    /\ UNCHANGED <<variant, self_timeout, op, sent, late, unanswered, written>>
    /\ UNCHANGED cvars
    /\ UNCHANGED <<count, pair>>

\* One round of Laser._read_frame's second loop
LaserReadEnd ==
    /\ variant = "Laser" /\ pc = "wait_end"
    /\ \E c \in ReadChoices :
          LET buf == buffer \o c
          IN  /\ Consume(c)
              /\ buffer' = buf
              /\ IF late
                 THEN Fail("LaserTimeOutError",
                           "Timed Out waiting for FRAME_END")
                 ELSE IF LastOf(buf) = FRAME_END
                 THEN Return(buf)
                 ELSE UNCHANGED <<self_address, sr_frame, scan, outcome,
                                  ops_done, pc>>
    /\ UNCHANGED <<variant, self_timeout, op, sent, late, unanswered, written>>
    /\ UNCHANGED cvars
    /\ UNCHANGED <<count, pair>>

\* One round of AsyncLaser._read_frame's first loop
AsyncReadStart ==
    /\ variant = "AsyncLaser" /\ pc = "wait_start"
    /\ \E c \in ReadChoices :
          /\ Consume(c)
          /\ buffer' = c
          /\ IF ~InRange(c, 0)
             THEN Fail("IndexError", "index out of range")
             ELSE /\ pc' = IF PyIndex(c, 0) = FRAME_START THEN "wait_end"
                           ELSE "wait_start"
                  /\ UNCHANGED <<self_address, sr_frame, scan, outcome,
                                 ops_done>>
    /\ UNCHANGED <<variant, self_timeout, op, sent, late, unanswered, written>>
    /\ UNCHANGED cvars
    /\ UNCHANGED <<count, pair>>

\* One round of AsyncLaser._read_frame's second loop
AsyncReadEnd ==
    /\ variant = "AsyncLaser" /\ pc = "wait_end"
    /\ \E c \in ReadChoices :
          LET buf == buffer \o c
          IN  /\ Consume(c)
              /\ buffer' = buf
              /\ IF LastOf(buf) = FRAME_END
                 THEN Return(buf)
                 ELSE UNCHANGED <<self_address, sr_frame, scan, outcome,
                                  ops_done, pc>>
    /\ UNCHANGED <<variant, self_timeout, op, sent, late, unanswered, written>>
    /\ UNCHANGED cvars
    /\ UNCHANGED <<count, pair>>

\* asyncio.wait_for cancels _read_frame once its timer has fired
AsyncTimeout ==
    /\ variant = "AsyncLaser" /\ pc \in {"wait_start", "wait_end"}
    /\ late
    /\ Fail("LaserTimeOutError", "Did not receive response within timeout")
    /\ UNCHANGED <<variant, self_timeout, op, sent, buffer, late, inbound,
                   unanswered, written, reply, leftover, origin>>
    /\ UNCHANGED cvars
    /\ UNCHANGED <<count, pair>>

\* The clock passes timeout_due / the wait_for timer fires
DeadlinePasses ==
    /\ pc \in {"wait_start", "wait_end"}
    /\ ~late
    /\ late' = TRUE
    /\ UNCHANGED <<variant, self_address, self_timeout, pc, op, sent, sr_frame,
                   buffer, inbound, unanswered, written, scan, outcome,
                   ops_done, reply, leftover, origin>>
    /\ UNCHANGED cvars
    /\ UNCHANGED <<count, pair>>

\* The device answers the last request, if it has not yet done so
DeviceRespond ==
    /\ unanswered # <<>>
    /\ \E r \in Responses(Head(unanswered)) :
          /\ Len(inbound) + Len(r) <= RxBufferSize
          /\ inbound' = inbound \o r
          /\ reply' = r
    /\ unanswered' = Tail(unanswered)
    /\ UNCHANGED <<variant, self_address, self_timeout, pc, op, sent, sr_frame,
                   buffer, late, written, scan, outcome, ops_done, leftover,
                   origin>>
    /\ UNCHANGED cvars
    /\ UNCHANGED <<count, pair>>

CodecIdle ==
    /\ cpc = "idle"
    /\ call = NoCall
    /\ cframe = <<>>
    /\ tamper = NoTamper
    /\ parsed = NotParsed
    /\ payload = <<>>
    /\ measured = NotParsed

Init ==
    /\ variant \in {"Laser", "AsyncLaser"}
    /\ SessionFresh
    /\ CodecIdle
    /\ count = 0
    /\ pair = PairFresh

Next ==
    \/ Call
    \/ LaserReadStart
    \/ LaserReadEnd
    \/ AsyncReadStart
    \/ AsyncReadEnd
    \/ AsyncTimeout
    \/ DeadlinePasses
    \/ DeviceRespond

Spec == Init /\ [][Next]_vars

\* ------------------------------------------------------ the asyncio example
\* examples/laser_egismos_async_test.py: main() runs counter() and reader()
\* as two tasks of one scheduler.  A task runs from one await to the next;
\* the steps of the two tasks interleave.

\* One iteration of counter(): print, then sleep
CounterStep ==
    /\ count < MaxCount
    /\ count' = count + 1
    /\ UNCHANGED svars_session
    /\ UNCHANGED cvars
    /\ UNCHANGED pair

\* reader() calls set_buzzer(False), then measure() repeatedly; an exception
\* raised by one call ends the task
ReaderCall ==
    /\ ops_done = 0 \/ outcome.ok
    /\ Call
    /\ op'.name = IF ops_done = 0 THEN "set_buzzer" ELSE "measure"

InitAsync ==
    /\ variant = "AsyncLaser"
    /\ SessionFresh
    /\ CodecIdle
    /\ count = 0
    /\ pair = PairFresh

NextAsync ==
    \/ ReaderCall
    \/ AsyncReadStart
    \/ AsyncReadEnd
    \/ AsyncTimeout
    \/ DeadlinePasses
    \/ DeviceRespond
    \/ CounterStep

\* The scheduler is fair to the counter task, the clock reaches the
\* deadline of a pending wait_for, and wait_for then cancels the read.
SpecAsync ==
    /\ InitAsync
    /\ [][NextAsync]_vars
    /\ WF_vars(CounterStep)
    /\ WF_vars(DeadlinePasses)
    /\ WF_vars(AsyncTimeout)

\* --------------------------------------------------- the variants compared
\* A Laser and an AsyncLaser start from the same self.address and the same
\* transport state, `before` being the bytes in the UART's input buffer, are
\* given the same operation, and are fed the same bytes `stream` afterwards.
\* Every read attempt either finds the next byte (in both) or returns
\* nothing (in both), and the deadline passes for both at once.

\* What may be in the input buffer before the call: nothing, noise, or an
\* answer to an earlier request of the same kind
BufferedBefore(req) ==
    {<<>>, <<85>>, DeviceFrame(req.address, req.command, Usual(req.command))}

\* What the device may send after the request is written
Streams(req) == Responses(req) \cup {<<>>}

PairFail(s, buf, kind, msg) ==
    [s EXCEPT !.pc = "done", !.buffer = buf, !.outcome = Raise(kind, msg)]

PairReturn(s, buf) ==
    LET out == OperationOutcome(op,
                   _process_frame([address |-> self_address], sent.address,
                                  sent.command, buf))
    IN  [s EXCEPT !.pc = "done", !.buffer = buf, !.outcome = out,
                  !.address = AddressAfter(op, out)]

\* One round of the loop the variant v is in, s being its state; got tells
\* whether a byte that is on the line is returned by this read
ScanStep(v, s, got) ==
    LET c == IF got /\ s.line # <<>> THEN <<Head(s.line)>> ELSE <<>>
        read == [s EXCEPT !.line = IF c = <<>> THEN s.line ELSE Tail(s.line)]
    IN  IF s.pc \notin {"wait_start", "wait_end"} THEN s
        ELSE IF v = "Laser" /\ s.pc = "wait_start"
        THEN LET buf == IF c = <<>> THEN <<0>> ELSE c
             IN  IF late
                 THEN PairFail(read, buf, "LaserTimeOutError",
                               "Timed Out waiting for FRAME_START")
                 ELSE [read EXCEPT !.buffer = buf,
                                   !.pc = IF buf[1] = FRAME_START
                                          THEN "wait_end" ELSE "wait_start"]
        ELSE IF v = "Laser"
        THEN LET buf == s.buffer \o c
             IN  IF late
                 THEN PairFail(read, buf, "LaserTimeOutError",
                               "Timed Out waiting for FRAME_END")
                 ELSE IF LastOf(buf) = FRAME_END THEN PairReturn(read, buf)
                 ELSE [read EXCEPT !.buffer = buf]
        ELSE IF late
        THEN PairFail(s, s.buffer, "LaserTimeOutError",
                      "Did not receive response within timeout")
        ELSE IF s.pc = "wait_start"
        THEN IF ~InRange(c, 0)
             THEN PairFail(read, c, "IndexError", "index out of range")
             ELSE [read EXCEPT !.buffer = c,
                               !.pc = IF PyIndex(c, 0) = FRAME_START
                                      THEN "wait_end" ELSE "wait_start"]
        ELSE LET buf == s.buffer \o c
             IN  IF LastOf(buf) = FRAME_END THEN PairReturn(read, buf)
                 ELSE [read EXCEPT !.buffer = buf]

PairReading == \E v \in Variants : pair[v].pc \in {"wait_start", "wait_end"}

\* Both variants are called: each builds and writes the request; Laser
\* resets the input buffer first, AsyncLaser does not
PairStart ==
    /\ \A v \in Variants : pair[v].pc = "idle"
    /\ \E o \in Operations("AsyncLaser") :
          LET self == [address |-> self_address, timeout |-> self_timeout]
              request == _build_frame(self, SendArgs(o).command,
                                      SendArgs(o).address, SendArgs(o).data)
              req == [address |-> request[2], command |-> request[3]]
          IN  /\ op' = o
              /\ sent' = SendArgs(o)
              /\ \E before \in BufferedBefore(req), stream \in Streams(req) :
                    pair' = [v \in Variants |->
                               [pc |-> "wait_start",
                                line |-> IF v = "Laser" THEN stream
                                         ELSE before \o stream,
                                buffer |-> <<0>>,
                                written |-> <<request>>,
                                outcome |-> NoOutcome,
                                address |-> self_address]]
    /\ late' = FALSE
    /\ UNCHANGED <<variant, self_address, self_timeout, pc, sr_frame, buffer,
                   inbound, unanswered, written, scan, outcome, ops_done,
                   reply, leftover, origin, count>>
    /\ UNCHANGED cvars

PairStep ==
    /\ PairReading
    /\ \E got \in BOOLEAN :
          pair' = [v \in Variants |-> ScanStep(v, pair[v], got)]
    /\ UNCHANGED <<svars_session, count>>
    /\ UNCHANGED cvars

PairDeadline ==
    /\ PairReading
    /\ ~late
    /\ late' = TRUE
    /\ UNCHANGED <<variant, self_address, self_timeout, pc, op, sent, sr_frame,
                   buffer, inbound, unanswered, written, scan, outcome,
                   ops_done, reply, leftover, origin, count, pair>>
    /\ UNCHANGED cvars

InitPair ==
    /\ variant = "Laser"
    /\ SessionFresh
    /\ CodecIdle
    /\ count = 0
    /\ pair = PairFresh

NextPair ==
    \/ PairStart
    \/ PairStep
    \/ PairDeadline

SpecPair == InitPair /\ [][NextPair]_vars

\* ----------------------------------------------------- codec properties
\* The arguments of the call as the caller means them
ArgAddress ==
    IF call.address.type = "NoneType" THEN call.session_address
    ELSE call.address.val

ArgData ==
    CASE call.data.type = "NoneType" -> <<>>
      [] call.data.type = "int" -> <<call.data.val>>
      [] call.data.type = "list" -> call.data.val

\* C1: parsing an unmodified built frame succeeds and returns exactly the
\* command, address and data the frame was built from.
C1_RoundTrip ==
    (cpc = "parsed" /\ tamper = NoTamper) =>
        /\ parsed.ok
        /\ parsed.command = call.command
        /\ parsed.address = ArgAddress
        /\ parsed.data = ArgData

C1_Witness ==
    /\ cpc = "parsed" /\ tamper = NoTamper
    /\ parsed.ok
    /\ call.address.type = "int"
    /\ Len(parsed.data) >= 1
    /\ FRAME_END \in {parsed.data[i] : i \in 1..Len(parsed.data)}

RECURSIVE Pow10(_)
Pow10(n) == IF n = 0 THEN 1 ELSE 10 * Pow10(n - 1)

RECURSIVE PlaceValue(_)
PlaceValue(ds) ==
    IF ds = <<>> THEN 0
    ELSE (Head(ds) - 48) * Pow10(Len(ds) - 1) + PlaceValue(Tail(ds))

SignedValue(p) ==
    IF p[1] = 45 THEN 0 - PlaceValue(Tail(p))
    ELSE IF p[1] = 43 THEN PlaceValue(Tail(p))
    ELSE PlaceValue(p)

\* An ASCII decimal integer: an optional sign and one or more digits
IsAsciiDecimal(p) ==
    /\ p # <<>>
    /\ LET first == IF p[1] \in {43, 45} THEN 2 ELSE 1
       IN  /\ first <= Len(p)
           /\ \A i \in first..Len(p) : p[i] \in 48..57

\* What int() takes: an ASCII decimal integer, possibly with single
\* underscores between digits and with ASCII whitespace around it
Core(p, i, j) ==
    SelectSeq(SubSeq(p, i, j), LAMBDA b : b # 95)

IsIntLiteral(p, i, j) ==
    /\ \A k \in 1..Len(p) : (k < i \/ k > j) => p[k] \in {9, 10, 11, 12, 13, 32}
    /\ p[i] \in 48..57 \cup {43, 45}
    /\ p[j] \in 48..57
    /\ \A k \in (i + 1)..j : p[k] \in 48..57 \cup {95}
    /\ \A k \in (i + 1)..j : p[k] = 95 => p[k - 1] \in 48..57
    /\ IsAsciiDecimal(Core(p, i, j))

Literals(p) ==
    {ij \in (1..Len(p)) \X (1..Len(p)) : IsIntLiteral(p, ij[1], ij[2])}

\* C8 (as claimed): ERR256, ERR255 and ERR204 raise TooBrightError,
\* TooDimError and BadReadingError; every other payload that is not an
\* ASCII decimal integer raises LaserCommandFailedError; an ASCII decimal
\* integer is returned as its value.
C8_ClassifyStrict ==
    cpc = "measured" =>
        IF payload = ERR256 THEN ~measured.ok /\ measured.kind = "TooBrightError"
        ELSE IF payload = ERR255 THEN ~measured.ok /\ measured.kind = "TooDimError"
        ELSE IF payload = ERR204 THEN ~measured.ok /\ measured.kind = "BadReadingError"
        ELSE IF IsAsciiDecimal(payload)
        THEN measured.ok /\ measured.value = SignedValue(payload)
        ELSE ~measured.ok /\ measured.kind = "LaserCommandFailedError"

\* C8 (amended): as above, but the payloads returned as integers are those
\* int() accepts: an ASCII decimal integer, possibly with single
\* underscores between its digits and ASCII whitespace around it.
C8_Classify ==
    cpc = "measured" =>
        IF payload = ERR256 THEN ~measured.ok /\ measured.kind = "TooBrightError"
        ELSE IF payload = ERR255 THEN ~measured.ok /\ measured.kind = "TooDimError"
        ELSE IF payload = ERR204 THEN ~measured.ok /\ measured.kind = "BadReadingError"
        ELSE IF Literals(payload) # {}
        THEN /\ measured.ok
             /\ \A ij \in Literals(payload) :
                   measured.value = SignedValue(Core(payload, ij[1], ij[2]))
        ELSE ~measured.ok /\ measured.kind = "LaserCommandFailedError"

C8_Witness ==
    /\ cpc = "measured"
    /\ payload = ERR255
    /\ ~measured.ok

\* C9: a value returned by the measurement interpreter is never negative.
C9_NonNegative ==
    (cpc = "measured" /\ measured.ok) => measured.value >= 0

\* ---------------------------------------------------- session properties
Finished == pc = "idle" /\ op # NoOp

\* The address and command bytes of the request frame that was written
SentAddress == written[1][2]
SentCommand == written[1][3]

\* The response read parses, and what it parses to
ResponseParses == scan = "frame" /\ _parse_frame(sr_frame).ok
Response == _parse_frame(sr_frame)

Mismatched ==
    /\ Finished /\ ResponseParses
    /\ Response.command # SentCommand \/ Response.address # SentAddress

Returned ==
    /\ ResponseParses
    /\ Response.command = SentCommand
    /\ Response.address = SentAddress

Acked == Returned /\ Len(Response.data) >= 1 /\ Response.data[1] = 1

C6_AckCheck ==
    (Finished /\ op.name \in AckOperations) =>
        /\ outcome.ok <=> Acked
        /\ (Returned /\ ~Acked) =>
               /\ outcome.kind = "LaserCommandFailedError"
               /\ outcome.msg = "Tried to send but it failed"

C6_Witness ==
    /\ Finished
    /\ variant = "AsyncLaser"
    /\ op.name = "set_buzzer"
    /\ Returned
    /\ Response.data = <<>>
    /\ ~outcome.ok

\* C7: self.address changes only when a set_slave_address(addr) completes
\* after a success acknowledgement, and then becomes addr; a failed
\* set_slave_address and every other operation leave it unchanged;
\* self.timeout never changes; the SET_SLAVE_ADDRESS request is sent to,
\* and its response correlated against, the old address.
Completes == pc # "idle" /\ pc' = "idle"

C7_AddressStep ==
    /\ self_timeout' = self_timeout
    /\ self_address' # self_address =>
          /\ Completes
          /\ op.name = "set_slave_address"
          /\ outcome'.ok
    /\ (Completes /\ op.name = "set_slave_address" /\ outcome'.ok) =>
          /\ self_address' = op.arg.val
          /\ written[1][2] = self_address
          /\ sr_frame'[2] = self_address
          /\ Len(sr_frame') >= 6 /\ sr_frame'[4] = 1
    /\ (Completes /\ ~outcome'.ok) => self_address' = self_address

C7_AddressFrame == [][C7_AddressStep]_vars

C7_Witness ==
    /\ Finished
    /\ ops_done = 2
    /\ op = [name |-> "set_slave_address", arg |-> PyInt(FRAME_END)]
    /\ outcome.ok
    /\ self_address = FRAME_END
    /\ SentAddress = 127

\* C10: every frame scan ends by returning a frame or by raising
\* LaserTimeOutError, the latter only once the deadline has passed; when
\* no START byte was read, or START but no END, it ends with
\* LaserTimeOutError.
C10_ScanEndsInFrameOrTimeout ==
    Finished =>
        /\ scan \in {"frame", "LaserTimeOutError"}
        /\ scan = "LaserTimeOutError" => late
        /\ scan = "frame" =>
              sr_frame[1] = FRAME_START /\ LastOf(sr_frame) = FRAME_END
        /\ (buffer = <<>> \/ buffer[1] # FRAME_START
              \/ LastOf(buffer) # FRAME_END) => scan = "LaserTimeOutError"

\* ------------------------------------------------------- scan properties
Reading == pc \in {"wait_start", "wait_end"}

\* C11: in both variants and in both phases of the scan, a step of the
\* operation in which no byte is taken from the line (a read that returned
\* nothing, or the timer firing) never ends the operation, except with
\* LaserTimeOutError once the deadline has passed.
C11_Step ==
    (Reading /\ inbound' = inbound /\ pc' = "idle") =>
        (late /\ scan' = "LaserTimeOutError")

C11_EmptyReadNeverFails == [][C11_Step]_vars

\* C12: in every exchange of either variant the request has been written
\* before any byte is read, and the bytes that were in the UART's input
\* buffer before the exchange were discarded first: the frame being
\* assembled never starts with a byte that was already buffered when the
\* request was written.
C12_DiscardWriteRead ==
    /\ Reading => Len(written) = 1
    /\ origin # "buffered"

\* C14: every operation of either variant writes exactly one request frame,
\* whatever its outcome: frames are written only by the step that starts
\* an operation, which writes one frame, and nothing is written again
\* while the operation waits, fails or returns.
C14_Step ==
    /\ (pc = "idle" /\ pc' # "idle") => Len(written') = 1
    /\ pc # "idle" => written' = written

C14_OneRequestFrame ==
    /\ [](op # NoOp => Len(written) = 1)
    /\ [][C14_Step]_vars

C14_Witness ==
    /\ Finished
    /\ variant = "Laser"
    /\ ops_done = 2
    /\ ~outcome.ok
    /\ scan = "LaserTimeOutError"
    /\ Len(written) = 1
    /\ written[1] = _build_frame([address |-> self_address], sent.command,
                                 sent.address, sent.data)

\* ------------------------------------------------- exchange properties
\* What _send_and_receive made of the frame the scan returned
ExchangeResult ==
    _process_frame([address |-> SentAddress], sent.address, sent.command,
                   sr_frame)

ExchangeReturned == Finished /\ scan = "frame" /\ ExchangeResult.ok

\* C16: whenever _send_and_receive returns a payload, in either variant,
\* the assembled frame begins with 0xAA, ends with 0xA8, its second-to-last
\* byte is the 7-bit sum of the bytes between START and the checksum, its
\* command and address bytes are those of the request, and the payload is
\* exactly the bytes between the command byte and the checksum; the frame
\* starts at the first 0xAA of what the device sent, so the bytes before
\* it are not part of the frame or of the payload.
C16_ReturnedFrame ==
    ExchangeReturned =>
        LET f == sr_frame
            n == Len(sr_frame)
        IN  /\ f[1] = FRAME_START
            /\ f[n] = FRAME_END
            /\ f[n - 1] = Sum(SubSeq(f, 2, n - 2)) % 128
            /\ f[3] = SentCommand
            /\ f[2] = SentAddress
            /\ ExchangeResult.value = SubSeq(f, 4, n - 2)
            /\ op.name = "_send_and_receive" =>
                   outcome = [ok |-> TRUE,
                              value |-> PyList(SubSeq(f, 4, n - 2))]
            /\ origin = "fresh" =>
                   \E i \in 1..Len(reply) :
                       /\ reply[i] = FRAME_START
                       /\ \A j \in 1..(i - 1) : reply[j] # FRAME_START
                       /\ f = SubSeq(reply, i, i + n - 1)

C16_Witness ==
    /\ ExchangeReturned
    /\ origin = "fresh"
    /\ reply[1] # FRAME_START
    /\ Len(ExchangeResult.value) = 2
    /\ sr_frame = SubSeq(reply, 2, Len(reply))

\* The device answered the last request with exactly the frame
\* _build_frame makes of the request's command and address and some
\* payload, and the scan took its START byte from that answer and ended
\* without a timeout.
ReplyPayload == SubSeq(reply, 4, Len(reply) - 2)

WellFormedReplyRead ==
    /\ Finished
    /\ scan = "frame"
    /\ origin = "fresh"
    /\ Len(reply) >= 5
    /\ reply = _build_frame([address |-> SentAddress], SentCommand,
                            PyInt(SentAddress), PyList(ReplyPayload))

\* C17: for every session address in 1..255 and every command, when the
\* device answers the request with exactly
\* _build_frame(command, address, payload) and the scan reads it before the
\* deadline, _send_and_receive returns exactly payload: no address or
\* payload byte cuts the frame short or gets the exchange rejected.
C17_Delivery ==
    (WellFormedReplyRead /\ SentAddress \in 1..255) =>
        /\ sr_frame = reply
        /\ ExchangeResult.ok
        /\ ExchangeResult.value = ReplyPayload

\* ------------------------------------------------- deadline properties
\* A read of the scan has just taken the next byte off the line
ByteRead == Reading /\ inbound # <<>> /\ inbound' = Tail(inbound)

\* C18 (as claimed): in the blocking variant, once a read of the second
\* loop has delivered the END byte, _read_frame returns the assembled
\* frame; it never discards it by raising LaserTimeOutError.
C18_EndByteStep ==
    (variant = "Laser" /\ pc = "wait_end" /\ ByteRead
        /\ Head(inbound) = FRAME_END) =>
        (scan' = "frame" /\ sr_frame' = buffer \o <<FRAME_END>>)

C18_EndByteReturnsFrame == [][C18_EndByteStep]_vars

\* C18 (amended): in the blocking variant the deadline is checked after
\* every read, whether or not it returned a byte: a scan ends with
\* LaserTimeOutError exactly when the deadline has passed at that check,
\* also when the read has just delivered a byte (the START or the END
\* byte included), and it returns a frame only when the END byte was read
\* with the deadline not yet passed.
C18_DeadlineStep ==
    (variant = "Laser" /\ Reading) =>
        /\ pc' = "idle" =>
              IF late THEN scan' = "LaserTimeOutError"
              ELSE /\ scan' = "frame"
                   /\ ByteRead /\ Head(inbound) = FRAME_END
                   /\ sr_frame' = buffer \o <<FRAME_END>>
        /\ (late /\ ByteRead) =>
              (pc' = "idle" /\ scan' = "LaserTimeOutError")

C18_DeadlineAfterEveryRead == [][C18_DeadlineStep]_vars

C18_Witness ==
    /\ Finished
    /\ variant = "Laser"
    /\ scan = "LaserTimeOutError"
    /\ late
    /\ buffer = reply
    /\ _process_frame([address |-> SentAddress], sent.address, sent.command,
                      buffer).ok

\* C19: across any sequence of exchanges on one session, a payload that
\* _send_and_receive returns comes from a frame the device sent in answer
\* to that exchange's own request, never from the answer to an earlier
\* request.
C19_NoStaleResponse ==
    ExchangeReturned =>
        /\ origin = "fresh"
        /\ \E i \in 1..Len(reply) :
              sr_frame = SubSeq(reply, i, i + Len(sr_frame) - 1)

\* ------------------------------------------------ codec properties, cont.
\* C20: every byte sequence _parse_frame accepts is an image of
\* _build_frame: when _parse_frame(frame) returns (command, address, data),
\* frame has at least 5 bytes and equals
\* _build_frame(command, address, data); sequences of 2, 3 or 4 bytes are
\* rejected.
C20_ParseIsImageOfBuild ==
    (cpc = "parsed" /\ parsed.ok) =>
        /\ Len(cframe) >= 5
        /\ cframe = _build_frame([address |-> 1], parsed.command,
                                 PyInt(parsed.address), PyList(parsed.data))

\* ---------------------------------------------------- example properties
\* No read of the current exchange has returned a byte
NothingRead == buffer \in {<<0>>, <<>>}

\* C15: in the suspend-capable variant, while an exchange waits for inbound
\* bytes the other task of the scheduler keeps running: under a fair
\* scheduler the counter task completes all its steps, every waiting
\* exchange ends, and an exchange during which no byte arrived ends with
\* LaserTimeOutError, after the deadline.
C15_ProgressAndTimeout ==
    /\ <>(count = MaxCount)
    /\ [](Reading => <>(pc = "idle"))
    /\ []((Finished /\ NothingRead) => (scan = "LaserTimeOutError" /\ late))

\* ----------------------------------------------------- variant properties
BothDone == \A v \in Variants : pair[v].pc = "done"

\* What the caller sees of an outcome: the value returned or the error kind
Observed(out) == IF out.ok THEN out ELSE [ok |-> FALSE, kind |-> out.kind]

\* C13: started from the same self.address and the same transport state,
\* bytes already buffered included, and fed the same inbound bytes, the
\* same operation writes the same bytes and ends with the same outcome
\* (the same value or the same error kind) and the same self.address in
\* Laser and in AsyncLaser.
C13_SameSemantics ==
    BothDone =>
        /\ pair["Laser"].written = pair["AsyncLaser"].written
        /\ Observed(pair["Laser"].outcome)
               = Observed(pair["AsyncLaser"].outcome)
        /\ pair["Laser"].address = pair["AsyncLaser"].address

====
